---- MODULE Spec2Model ----
(***************************************************************************)
(* The metrics store (utils/db.py), the comparison engine built on it and  *)
(* the generation action of app.py that merges per-file extraction results *)
(* and persists them.                                                      *)
(*                                                                         *)
(* The SQLite table weekly_metrics is the set of its committed rows.       *)
(* Every function of db.py opens its own connection, so what a call sees   *)
(* is the committed table; what a call writes becomes visible at commit.   *)
(* A pandas DataFrame is a record of its column labels and its rows, each  *)
(* row a function from column label to cell.                               *)
(***************************************************************************)
EXTENDS Integers, Sequences, FiniteSets, TLC

VARIABLES
    store,      \* committed rows of weekly_metrics
    op,         \* the db.py call made last: [name, week1, week2, metrics]
    ret,        \* how that call ended: [raised, value]
    effect,     \* history: what that call did to the rows it found (see Effect)
    last,       \* history: (week, brand) -> entry given by the last save_metrics that returned
    upserted,   \* history: weeks of the save_metrics calls that returned
    pc,         \* app.py: position of the generation action
    error,      \* app.py:347 the call whose exception ended the action, or None
    current_week_id,   \* app.py:220
    n_files,           \* app.py: len(metrics_files)
    extracted,         \* history: outcome of extraction for the files read so far
    all_metrics_data,  \* app.py:289 the accumulator of the merge
    warnings,          \* number of st.warning calls of the action (app.py:311)
    saves,             \* history: arguments of the save_metrics calls of the action
    saved,             \* history: the table right after the action's save_metrics
    writer,     \* a save_metrics call under way, statement by statement
    reader,     \* a get_metrics or get_comparison_data call under way on another thread
    vault       \* app.py: how the run of the Vault tab ended

vars == <<store, op, ret, effect, last, upserted, pc, error, current_week_id, n_files,
          extracted, all_metrics_data, warnings, saves, saved, writer, reader, vault>>

dbVars == <<store, op, ret, effect, last, upserted>>
appVars == <<pc, error, current_week_id, n_files, extracted, all_metrics_data,
             warnings, saves, saved>>
threadVars == <<writer, reader>>

-----------------------------------------------------------------------------
(* Input domains *)

\* Brands of the extraction prompt, in lexicographic order.
BrandSeq == <<"AEO", "FL">>
Brands == {BrandSeq[i] : i \in 1..Len(BrandSeq)}

\* Week identifiers f"{year}-W{week}", in lexicographic order.
WeekSeq == <<"2025-W1", "2025-W2">>
Weeks == {WeekSeq[i] : i \in 1..Len(WeekSeq)}

\* Files of one generation action.
MaxFiles == 3

NA == "N/A"
\* The cell pandas puts where a join has no value.
NaN == "NaN"
\* No value (Python None).
None == "None"

\* How a call ends: it returns value, or it raises.
Return(value) == [raised |-> FALSE, value |-> value]
Raise == [raised |-> TRUE, value |-> None]

EmptyDict == [k \in {} |-> ""]

\* A JSON value standing for one brand: an object with some of the keys
\* "sales" and "margin", or something that is no object (here a string).
Obj(f) == [type |-> "object", fields |-> f]
NotAnObject == [type |-> "string", fields |-> EmptyDict]

Entries ==
    { Obj(EmptyDict),
      Obj([k \in {"sales"} |-> "+1%"]),
      Obj([k \in {"sales", "margin"} |-> IF k = "sales" THEN "-2%" ELSE "+1%"]) }

\* A metrics_data dict: brand -> entry, for some of the brands.
DictsOver(vals) == UNION {[bs -> vals] : bs \in SUBSET Brands}
Mappings == DictsOver(Entries \cup {NotAnObject})

\* What extract_metrics_from_file does for one file: it raises (the provider
\* call failed), or it returns text that is no JSON, JSON that is no object
\* (here a number), or a JSON object.
Outcome(kind, dict) == [kind |-> kind, dict |-> dict]
FileDicts ==
    { ("AEO" :> Obj([k \in {"sales", "margin"} |-> IF k = "sales" THEN "-2%" ELSE "+1%"])),
      ("AEO" :> Obj([k \in {"sales"} |-> "+1%"])) @@ ("FL" :> Obj(EmptyDict)),
      ("FL" :> NotAnObject) }
Outcomes ==
    {Outcome("raise", EmptyDict), Outcome("garbage", EmptyDict), Outcome("number", EmptyDict)}
        \cup {Outcome("object", d) : d \in FileDicts}

\* The orders in which a dict with key set S can iterate.
Orders(S) == {s \in [1..Cardinality(S) -> S] : \A i, j \in 1..Cardinality(S) : s[i] = s[j] => i = j}

-----------------------------------------------------------------------------
(* Python dict *)

\* d.get(key): None for a missing key.
GetNoDefault(d, key, default) == IF key \in DOMAIN d THEN d[key] ELSE None

\* d.get(key, default)
Get(d, key, default) == IF key \in DOMAIN d THEN d[key] ELSE default

\* An update that keeps the value of a key the dict already has.
UpdateKeepFirst(d, other) == [k \in DOMAIN d \cup DOMAIN other |-> IF k \in DOMAIN d THEN d[k] ELSE other[k]]

\* d.update(other), other a dict: the keys of other take other's values.
Update(d, other) == [k \in DOMAIN d \cup DOMAIN other |-> IF k \in DOMAIN other THEN other[k] ELSE d[k]]

-----------------------------------------------------------------------------
(* utils/db.py: the table *)

Row(week_id, brand, sales, margin) ==
    [week_id |-> week_id, brand |-> brand, sales_var |-> sales, margin_var |-> margin]

\* init_db on a fresh database file: the table exists and is empty.
init_db == {}

\* INSERT into a table that has no primary key: nothing is replaced.
InsertOnly(table, row) == table \cup {row}

\* A replace that deletes the row it finds and inserts only when it finds none.
DeleteOrInsert(table, row) ==
    IF \E r \in table : r.week_id = row.week_id /\ r.brand = row.brand
    THEN {r \in table : ~(r.week_id = row.week_id /\ r.brand = row.brand)}
    ELSE table \cup {row}

\* A save that replaces the week: the rows of the week are deleted, whatever
\* their brand, and the new row inserted.
ReplaceWeek(table, row) == {r \in table : r.week_id # row.week_id} \cup {row}

\* INSERT OR REPLACE under PRIMARY KEY (week_id, brand): the row with the
\* same key, if any, is deleted and the new row inserted.
InsertOrReplace(table, row) ==
    {r \in table : ~(r.week_id = row.week_id /\ r.brand = row.brand)} \cup {row}

\* The loop of save_metrics over metrics_data.items(), inside the connection's
\* open transaction txn.  data.get raises when data is no dict.
RECURSIVE SaveLoop(_, _, _, _)
SaveLoop(txn, week_id, metrics_data, order) ==
    IF order = <<>> THEN [raised |-> FALSE, txn |-> txn]
    ELSE LET brand == Head(order)
             data == metrics_data[brand]
         IN  IF data.type # "object" THEN [raised |-> TRUE, txn |-> txn]
             ELSE LET sales == Get(data.fields, "sales", NA)
                      margin == Get(data.fields, "margin", NA)
                  IN  SaveLoop(InsertOrReplace(txn, Row(week_id, brand, sales, margin)),
                               week_id, metrics_data, Tail(order))

\* A connection in autocommit mode: every statement executed stays.
CommitEach(table, result) == result.txn

\* What the connection leaves in the table: the transaction at conn.commit(),
\* and nothing of it when the loop raised, the connection being dropped
\* without a commit (sqlite3 rolls the open transaction back when the
\* connection object is freed, and no other connection sees it before).
\* Faults of the storage itself (sqlite3.OperationalError) are not modelled.
Commit(table, result) == IF result.raised THEN table ELSE result.txn

save_metrics(table, week_id, metrics_data, order) ==
    LET result == SaveLoop(table, week_id, metrics_data, order)
    IN  [raised |-> result.raised, table |-> Commit(table, result)]

-----------------------------------------------------------------------------
(* Sequences *)

RECURSIVE SetToSeq(_)
SetToSeq(S) == IF S = {} THEN <<>> ELSE LET x == CHOOSE y \in S : TRUE IN <<x>> \o SetToSeq(S \ {x})

RECURSIVE Flatten(_)
Flatten(seqs) == IF seqs = <<>> THEN <<>> ELSE Head(seqs) \o Flatten(Tail(seqs))

Range(seq) == {seq[i] : i \in 1..Len(seq)}

-----------------------------------------------------------------------------
(* pandas *)

DataFrame(columns, rows) == [columns |-> columns, rows |-> rows]

\* pd.DataFrame()
EmptyFrame == DataFrame(<<>>, <<>>)

\* df.empty
empty(df) == Len(df.rows) = 0 \/ Len(df.columns) = 0

\* df.rename(columns=names): labels in names are replaced, the others kept.
rename(df, names) ==
    LET new(c) == IF c \in DOMAIN names THEN names[c] ELSE c
    IN  DataFrame([i \in 1..Len(df.columns) |-> new(df.columns[i])],
                  [i \in 1..Len(df.rows) |->
                      [c \in {new(d) : d \in DOMAIN df.rows[i]} |->
                          df.rows[i][CHOOSE d \in DOMAIN df.rows[i] : new(d) = c]]])

\* The rows of df whose key cell is k, in df's order.
RowsOf(df, key, k) == SelectSeq(df.rows, LAMBDA r : r[key] = k)

\* pd.merge(left, right, on=key, how=how), how "outer" or "inner": a label
\* other than the key that both frames carry gets the suffix _x on the left and
\* _y on the right; a key comes out once per pair of matching rows, the keys
\* sorted; with "outer" the keys of either frame come out, the cells of the
\* side that has no row for a key being NaN, with "inner" only the keys of both.
merge(left, right, key, how) ==
    LET lcols == SelectSeq(left.columns, LAMBDA c : c # key)
        rcols == SelectSeq(right.columns, LAMBDA c : c # key)
        lname(c) == IF c \in Range(rcols) THEN c \o "_x" ELSE c
        rname(c) == IF c \in Range(lcols) THEN c \o "_y" ELSE c
        lcells(r) == [c \in {lname(d) : d \in Range(lcols)} |->
                         r[CHOOSE d \in Range(lcols) : lname(d) = c]]
        rcells(r) == [c \in {rname(d) : d \in Range(rcols)} |->
                         r[CHOOSE d \in Range(rcols) : rname(d) = c]]
        lnan == [c \in {lname(d) : d \in Range(lcols)} |-> NaN]
        rnan == [c \in {rname(d) : d \in Range(rcols)} |-> NaN]
        inl(k) == RowsOf(left, key, k) # <<>>
        inr(k) == RowsOf(right, key, k) # <<>>
        keys == SelectSeq(BrandSeq, LAMBDA k : IF how = "outer" THEN inl(k) \/ inr(k)
                                                ELSE inl(k) /\ inr(k))
        joined(k) ==
            LET L == RowsOf(left, key, k)
                R == RowsOf(right, key, k)
                kc == (key :> k)
            IN  IF R = <<>> THEN [i \in 1..Len(L) |-> kc @@ lcells(L[i]) @@ rnan]
                ELSE IF L = <<>> THEN [i \in 1..Len(R) |-> kc @@ lnan @@ rcells(R[i])]
                ELSE [i \in 1..(Len(L) * Len(R)) |->
                         kc @@ lcells(L[((i - 1) \div Len(R)) + 1])
                            @@ rcells(R[((i - 1) % Len(R)) + 1])]
    IN  DataFrame(<<key>> \o [i \in 1..Len(lcols) |-> lname(lcols[i])]
                          \o [i \in 1..Len(rcols) |-> rname(rcols[i])],
                  Flatten([i \in 1..Len(keys) |-> joined(keys[i])]))

-----------------------------------------------------------------------------
(* utils/db.py: the queries *)

\* SELECT brand, sales_var, margin_var FROM weekly_metrics WHERE week_id = ?
\* read into a DataFrame; the rows come in the order of the primary-key index.
get_metrics(table, week_id) ==
    LET of(b) == SetToSeq({r \in table : r.week_id = week_id /\ r.brand = b})
        cells(r) == [c \in {"brand", "sales_var", "margin_var"} |-> r[c]]
        rows == Flatten([i \in 1..Len(BrandSeq) |-> of(BrandSeq[i])])
    IN  DataFrame(<<"brand", "sales_var", "margin_var">>,
                  [i \in 1..Len(rows) |-> cells(rows[i])])

\* SELECT with no DISTINCT: a week_id comes out once per row.
NotDistinct(week_ids) == week_ids

\* DISTINCT: the first occurrence of each week_id.
RECURSIVE Distinct(_)
Distinct(week_ids) ==
    IF week_ids = <<>> THEN <<>>
    ELSE LET front == Distinct(SubSeq(week_ids, 1, Len(week_ids) - 1))
             w == week_ids[Len(week_ids)]
         IN  IF w \in Range(front) THEN front ELSE Append(front, w)

\* ORDER BY week_id DESC: the text order of the identifiers, greatest first.
OrderDesc(week_ids) ==
    Flatten([i \in 1..Len(WeekSeq) |->
                SelectSeq(week_ids, LAMBDA w : w = WeekSeq[Len(WeekSeq) + 1 - i])])

\* SELECT DISTINCT week_id FROM weekly_metrics ORDER BY week_id DESC
get_all_weeks(table) ==
    LET rows == SetToSeq(table)
        week_ids == [i \in 1..Len(rows) |-> rows[i].week_id]
    IN  OrderDesc(Distinct(week_ids))

SalesCol(week_id) == week_id \o " Sales"
MarginCol(week_id) == week_id \o " Margin"

\* pd.merge(df1, df2, on="brand", how="inner")
MergedInner(df1, df2) == merge(df1, df2, "brand", "inner")

\* An outer merge followed by fillna("N/A").
MergedFillNA(df1, df2) ==
    LET m == merge(df1, df2, "brand", "outer")
    IN  DataFrame(m.columns,
                  [i \in 1..Len(m.rows) |->
                      [c \in DOMAIN m.rows[i] |-> IF m.rows[i][c] = NaN THEN NA ELSE m.rows[i][c]]])

\* pd.merge(df1, df2, on="brand", how="outer")
Merged(df1, df2) == merge(df1, df2, "brand", "outer")

\* The frame get_comparison_data returns for the frames of the two weeks.
Compared(df1, df2) ==
    IF ~empty(df1) /\ ~empty(df2) THEN Merged(df1, df2)
    ELSE IF ~empty(df1) THEN df1
    ELSE IF ~empty(df2) THEN df2
    ELSE EmptyFrame

\* A comparison that takes two weeks with no rows for an error.
get_comparison_data_or_raise(table, week1_id, week2_id) ==
    LET df1 == rename(get_metrics(table, week1_id),
                      ("sales_var" :> SalesCol(week1_id)) @@ ("margin_var" :> MarginCol(week1_id)))
        df2 == rename(get_metrics(table, week2_id),
                      ("sales_var" :> SalesCol(week2_id)) @@ ("margin_var" :> MarginCol(week2_id)))
    IN  IF empty(df1) /\ empty(df2) THEN Raise ELSE Return(Compared(df1, df2))

\* A comparison that does not join a week with itself and returns the week's
\* frame.
get_comparison_data_no_self(table, week1_id, week2_id) ==
    LET df1 == rename(get_metrics(table, week1_id),
                      ("sales_var" :> SalesCol(week1_id)) @@ ("margin_var" :> MarginCol(week1_id)))
        df2 == rename(get_metrics(table, week2_id),
                      ("sales_var" :> SalesCol(week2_id)) @@ ("margin_var" :> MarginCol(week2_id)))
    IN  IF week1_id = week2_id THEN Return(df1) ELSE Return(Compared(df1, df2))

get_comparison_data(table, week1_id, week2_id) ==
    LET df1 == rename(get_metrics(table, week1_id),
                      ("sales_var" :> SalesCol(week1_id)) @@ ("margin_var" :> MarginCol(week1_id)))
        df2 == rename(get_metrics(table, week2_id),
                      ("sales_var" :> SalesCol(week2_id)) @@ ("margin_var" :> MarginCol(week2_id)))
    IN  Return(Compared(df1, df2))

-----------------------------------------------------------------------------
(* Calls of the store's functions *)

Call(name, week1, week2, metrics) ==
    [name |-> name, week1 |-> week1, week2 |-> week2, metrics |-> metrics]

NoEntry == [type |-> "none", fields |-> EmptyDict]

\* The history of a save_metrics call that returned.
Record(week_id, metrics_data) ==
    [k \in Weeks \X Brands |->
        IF k[1] = week_id /\ k[2] \in DOMAIN metrics_data THEN metrics_data[k[2]] ELSE last[k]]

\* The history of what a save_metrics call did: it repeated the call made just
\* before it ("retry"); it put "N/A" where the row it replaced held a value
\* ("shrunk"); it replaced a row by a different one ("replaced"); or neither.
Effect(week_id, metrics_data, table) ==
    LET olds == {r \in store : r.week_id = week_id /\ r.brand \in DOMAIN metrics_data}
        new(old) == {r \in table : r.week_id = old.week_id /\ r.brand = old.brand}
    IN  IF op = Call("save_metrics", week_id, None, metrics_data) THEN "retry"
        ELSE IF \E old \in olds : \E r \in new(old) :
                   \/ old.sales_var # NA /\ r.sales_var = NA
                   \/ old.margin_var # NA /\ r.margin_var = NA
             THEN "shrunk"
        ELSE IF \E old \in olds : old \notin table THEN "replaced"
        ELSE "written"

DoSave(week_id, metrics_data, order) ==
    LET r == save_metrics(store, week_id, metrics_data, order)
    IN  /\ store' = r.table
        /\ op' = Call("save_metrics", week_id, None, metrics_data)
        /\ ret' = IF r.raised THEN Raise ELSE Return(None)
        /\ effect' = Effect(week_id, metrics_data, r.table)
        /\ last' = IF r.raised THEN last ELSE Record(week_id, metrics_data)
        /\ upserted' = IF r.raised THEN upserted ELSE upserted \cup {week_id}

CallSaveMetrics ==
    /\ \E week_id \in Weeks, metrics_data \in Mappings :
         \E order \in Orders(DOMAIN metrics_data) :
            DoSave(week_id, metrics_data, order)
    /\ UNCHANGED <<appVars, threadVars, vault>>

CallGetMetrics ==
    /\ \E week_id \in Weeks :
         /\ op' = Call("get_metrics", week_id, None, EmptyDict)
         /\ ret' = Return(get_metrics(store, week_id))
    /\ effect' = "read"
    /\ UNCHANGED <<store, last, upserted>>
    /\ UNCHANGED <<appVars, threadVars, vault>>

CallGetAllWeeks ==
    /\ op' = Call("get_all_weeks", None, None, EmptyDict)
    /\ ret' = Return(get_all_weeks(store))
    /\ effect' = "read"
    /\ UNCHANGED <<store, last, upserted>>
    /\ UNCHANGED <<appVars, threadVars, vault>>

CallGetComparisonData ==
    /\ \E week1_id \in Weeks, week2_id \in Weeks :
         /\ op' = Call("get_comparison_data", week1_id, week2_id, EmptyDict)
         /\ ret' = get_comparison_data(store, week1_id, week2_id)
    /\ effect' = "read"
    /\ UNCHANGED <<store, last, upserted>>
    /\ UNCHANGED <<appVars, threadVars, vault>>

InitDb ==
    /\ store = init_db
    /\ op = Call("init_db", None, None, EmptyDict)
    /\ ret = Return(None)
    /\ effect = "none"
    /\ last = [k \in Weeks \X Brands |-> NoEntry]
    /\ upserted = {}

InitApp ==
    /\ pc = "idle"
    /\ error = None
    /\ current_week_id = None
    /\ n_files = 0
    /\ extracted = <<>>
    /\ all_metrics_data = EmptyDict
    /\ warnings = 0
    /\ saves = <<>>
    /\ saved = {}

\* No save_metrics call under way.
IdleWriter ==
    [pc |-> "idle", week_id |-> None, metrics_data |-> EmptyDict, order |-> <<>>, txn |-> {}]

NoRead == [week_id |-> None, df |-> EmptyFrame]

\* No query under way, none made yet.
IdleReader ==
    [pc |-> "idle", name |-> None, week1 |-> None, week2 |-> None, read |-> NoRead,
     df1 |-> EmptyFrame, value |-> EmptyFrame]

InitThreads ==
    /\ writer = IdleWriter
    /\ reader = IdleReader

\* The Vault tab has not run.
InitVault == vault = [outcome |-> None, available_weeks |-> <<>>, calls |-> <<>>]

Init == InitDb /\ InitApp /\ InitThreads /\ InitVault

-----------------------------------------------------------------------------
(* app.py: the generation action *)

\* json.loads(metrics_json_str): JSONDecodeError on text that is no JSON.
json_loads(out) == IF out.kind = "garbage" THEN Raise ELSE Return(out)

\* all_metrics_data.update(file_metrics): TypeError when file_metrics is
\* neither a dict nor iterable.
dict_update(d, file_metrics) ==
    IF file_metrics.kind = "object" THEN Return(Update(d, file_metrics.dict)) ELSE Raise

\* The button, past the guards on the API key and on metrics_files, up to the
\* loop over the files.
ClickGenerate ==
    /\ pc \in {"idle", "done", "error"}
    /\ \E week_id \in Weeks, n \in 1..MaxFiles :
         /\ current_week_id' = week_id
         /\ n_files' = n
    /\ pc' = "loop"
    /\ error' = None
    /\ extracted' = <<>>
    /\ all_metrics_data' = EmptyDict
    /\ warnings' = 0
    /\ saves' = <<>>
    /\ saved' = {}
    /\ UNCHANGED <<dbVars, threadVars, vault>>

\* One turn of the loop over metrics_files: extraction, json.loads, update.
\* Only JSONDecodeError is caught in the loop; any other exception leaves it
\* for the handler of line 346.
ExtractFile ==
    /\ pc = "loop"
    /\ Len(extracted) < n_files
    /\ \E out \in Outcomes :
         /\ extracted' = Append(extracted, out)
         /\ IF out.kind = "raise"
            THEN /\ pc' = "error"
                 /\ error' = "extract_metrics_from_file"
                 /\ UNCHANGED <<all_metrics_data, warnings>>
            ELSE LET file_metrics == json_loads(out)
                 IN  IF file_metrics.raised
                     THEN /\ warnings' = warnings + 1
                          /\ UNCHANGED <<pc, error, all_metrics_data>>
                     ELSE LET merged == dict_update(all_metrics_data, file_metrics.value)
                          IN  IF merged.raised
                              THEN /\ pc' = "error"
                                   /\ error' = "update"
                                   /\ UNCHANGED <<all_metrics_data, warnings>>
                              ELSE /\ all_metrics_data' = merged.value
                                   /\ UNCHANGED <<pc, error, warnings>>
    /\ UNCHANGED <<current_week_id, n_files, saves, saved>>
    /\ UNCHANGED <<dbVars, threadVars, vault>>

\* A save that is skipped when the accumulator is empty.
SaveToDbIfAny ==
    /\ pc = "loop"
    /\ Len(extracted) = n_files
    /\ IF all_metrics_data = EmptyDict
       THEN /\ pc' = "generate"
            /\ error' = None
            /\ saved' = store
            /\ UNCHANGED <<dbVars, saves>>
       ELSE /\ \E order \in Orders(DOMAIN all_metrics_data) :
                 DoSave(current_week_id, all_metrics_data, order)
            /\ saves' = Append(saves, <<current_week_id, all_metrics_data>>)
            /\ saved' = store'
            /\ pc' = IF ret'.raised THEN "error" ELSE "generate"
            /\ error' = IF ret'.raised THEN "save_metrics" ELSE None
    /\ UNCHANGED <<current_week_id, n_files, extracted, all_metrics_data, warnings>>
    /\ UNCHANGED <<threadVars, vault>>

\* After the loop: save_metrics(current_week_id, all_metrics_data).
SaveToDb ==
    /\ pc = "loop"
    /\ Len(extracted) = n_files
    /\ \E order \in Orders(DOMAIN all_metrics_data) :
         DoSave(current_week_id, all_metrics_data, order)
    /\ saves' = Append(saves, <<current_week_id, all_metrics_data>>)
    /\ saved' = store'
    /\ pc' = IF ret'.raised THEN "error" ELSE "generate"
    /\ error' = IF ret'.raised THEN "save_metrics" ELSE None
    /\ UNCHANGED <<current_week_id, n_files, extracted, all_metrics_data, warnings>>
    /\ UNCHANGED <<threadVars, vault>>

\* A generation whose failure takes the week's rows back out of the table.
GenerateEmailRollback ==
    /\ pc = "generate"
    /\ \E raised \in BOOLEAN :
         /\ pc' = IF raised THEN "error" ELSE "done"
         /\ error' = IF raised THEN "generate_email" ELSE None
         /\ store' = IF raised THEN {r \in store : r.week_id # current_week_id} ELSE store
    /\ UNCHANGED <<current_week_id, n_files, extracted, all_metrics_data, warnings, saves, saved>>
    /\ UNCHANGED <<op, ret, effect, last, upserted, threadVars, vault>>

\* generate_email returns the brief or raises; the table is not touched.
GenerateEmail ==
    /\ pc = "generate"
    /\ \E raised \in BOOLEAN :
         /\ pc' = IF raised THEN "error" ELSE "done"
         /\ error' = IF raised THEN "generate_email" ELSE None
    /\ UNCHANGED <<current_week_id, n_files, extracted, all_metrics_data, warnings, saves, saved>>
    /\ UNCHANGED <<dbVars, threadVars, vault>>

-----------------------------------------------------------------------------
(* app.py: the Vault tab *)

\* The names line 370 binds: col1, col2, col3 = st.columns([1, 1, 1])
Columns == {"col1", "col2", "col3"}

\* The evaluation of a name main has to find among its locals: NameError when
\* nothing has bound it.
Name(name, bound) == IF name \in bound THEN Return(name) ELSE Raise

\* st.selectbox(label, options, index=index) as the page first shows it: the
\* option at index, counted from 0.
selectbox(options, index) == options[index + 1]

\* One run of the tab over the table: the weeks listed, how the run ended and
\* the calls of get_comparison_data it made.  The toggle "Show Comparison" is
\* created with value=True.
VaultTab(table) ==
    LET available_weeks == get_all_weeks(table)
        ended(outcome, calls) ==
            [outcome |-> outcome, available_weeks |-> available_weeks, calls |-> calls]
    IN  IF Len(available_weeks) < 2 THEN ended("info", <<>>)
        ELSE LET week_baseline == selectbox(available_weeks,
                                            IF Len(available_weeks) > 1 THEN 1 ELSE 0)
                 week_current == selectbox(available_weeks, 0)
                 col == Name("col_3", Columns)
                 compare == TRUE
             IN  IF col.raised THEN ended("NameError", <<>>)
                 ELSE IF compare
                      THEN ended("compared", <<Call("get_comparison_data", week_baseline,
                                                    week_current, EmptyDict)>>)
                      ELSE ended("hidden", <<>>)

\* The script runs the tab on every run, after what tab 1 did in that run.
ViewVault ==
    /\ pc \in {"idle", "done", "error"}
    /\ vault' = VaultTab(store)
    /\ UNCHANGED <<dbVars, appVars, threadVars>>

Next ==
    \/ ClickGenerate
    \/ ExtractFile
    \/ SaveToDb
    \/ GenerateEmail

\* The application: generation actions, one after the other.
Spec == Init /\ [][Next]_vars

\* The application with its Vault tab.
NextVault ==
    \/ ClickGenerate
    \/ ExtractFile
    \/ SaveToDb
    \/ GenerateEmail
    \/ ViewVault

SpecVault == Init /\ [][NextVault]_vars

\* The store under arbitrary calls of its functions.
NextStore ==
    \/ CallSaveMetrics
    \/ CallGetMetrics
    \/ CallGetAllWeeks
    \/ CallGetComparisonData

SpecStore == Init /\ [][NextStore]_vars

-----------------------------------------------------------------------------
(* utils/db.py: a save_metrics call and a query on two threads *)

\* A query that sees the sales cells of the rows a transaction under way has
\* replaced, before its commit.
VisibleSales(committed, txn) ==
    {IF \E t \in txn : t.week_id = r.week_id /\ t.brand = r.brand
     THEN [r EXCEPT !.sales_var =
              (CHOOSE t \in txn : t.week_id = r.week_id /\ t.brand = r.brand).sales_var]
     ELSE r : r \in committed}

\* What a SELECT on another connection sees while a transaction is open on
\* the writer's connection: the committed rows, and nothing of the transaction.
Visible(committed, txn) == committed

\* save_metrics up to the loop: the connection, whose transaction starts from
\* the committed rows.
WriterConnect ==
    /\ writer.pc = "idle"
    /\ \E week_id \in Weeks, metrics_data \in FileDicts :
         \E order \in Orders(DOMAIN metrics_data) :
            writer' = [pc |-> "loop", week_id |-> week_id, metrics_data |-> metrics_data,
                       order |-> order, txn |-> store]
    /\ UNCHANGED <<store, reader>>
    /\ UNCHANGED <<op, ret, effect, last, upserted, appVars, vault>>

\* One turn of the loop: the two data.get and the INSERT OR REPLACE, inside
\* the transaction.  When data.get raises, the call ends with no commit.
WriterExecute ==
    /\ writer.pc = "loop"
    /\ writer.order # <<>>
    /\ LET brand == Head(writer.order)
           data == writer.metrics_data[brand]
       IN  IF data.type # "object" THEN writer' = IdleWriter
           ELSE LET sales == Get(data.fields, "sales", NA)
                    margin == Get(data.fields, "margin", NA)
                IN  writer' = [writer EXCEPT
                                 !.txn = InsertOrReplace(@, Row(writer.week_id, brand, sales, margin)),
                                 !.order = Tail(@)]
    /\ UNCHANGED <<store, reader>>
    /\ UNCHANGED <<op, ret, effect, last, upserted, appVars, vault>>

\* conn.commit() and conn.close() after the loop.
WriterCommit ==
    /\ writer.pc = "loop"
    /\ writer.order = <<>>
    /\ store' = writer.txn
    /\ writer' = IdleWriter
    /\ UNCHANGED reader
    /\ UNCHANGED <<op, ret, effect, last, upserted, appVars, vault>>

\* The SELECT of get_metrics on the reader's own connection.
Select(week_id) ==
    [week_id |-> week_id, df |-> get_metrics(Visible(store, writer.txn), week_id)]

\* get_metrics(week_id) called on its own.
ReaderGetMetrics ==
    /\ reader.pc = "idle"
    /\ \E week_id \in Weeks :
         LET read == Select(week_id)
         IN  reader' = [pc |-> "idle", name |-> "get_metrics", week1 |-> week_id, week2 |-> None,
                        read |-> read, df1 |-> EmptyFrame, value |-> read.df]
    /\ UNCHANGED <<store, writer>>
    /\ UNCHANGED <<op, ret, effect, last, upserted, appVars, vault>>

\* get_comparison_data: df1 = get_metrics(week1_id)
ReaderCompareFirst ==
    /\ reader.pc = "idle"
    /\ \E week1_id \in Weeks, week2_id \in Weeks :
         LET read == Select(week1_id)
         IN  reader' = [pc |-> "second", name |-> "get_comparison_data", week1 |-> week1_id,
                        week2 |-> week2_id, read |-> read, df1 |-> read.df, value |-> EmptyFrame]
    /\ UNCHANGED <<store, writer>>
    /\ UNCHANGED <<op, ret, effect, last, upserted, appVars, vault>>

\* get_comparison_data: df2 = get_metrics(week2_id), the renames and the merge.
ReaderCompareSecond ==
    /\ reader.pc = "second"
    /\ LET read == Select(reader.week2)
           df1 == rename(reader.df1, ("sales_var" :> SalesCol(reader.week1))
                                        @@ ("margin_var" :> MarginCol(reader.week1)))
           df2 == rename(read.df, ("sales_var" :> SalesCol(reader.week2))
                                     @@ ("margin_var" :> MarginCol(reader.week2)))
       IN  reader' = [reader EXCEPT !.pc = "idle", !.read = read, !.value = Compared(df1, df2)]
    /\ UNCHANGED <<store, writer>>
    /\ UNCHANGED <<op, ret, effect, last, upserted, appVars, vault>>

NextThreads ==
    \/ WriterConnect
    \/ WriterExecute
    \/ WriterCommit
    \/ ReaderGetMetrics
    \/ ReaderCompareFirst
    \/ ReaderCompareSecond

\* One save_metrics call at a time, interleaved statement by statement with
\* the queries of another thread.
SpecThreads == Init /\ [][NextThreads]_vars

-----------------------------------------------------------------------------
(* The store's contract *)

RowsAt(table, week_id, brand) == {r \in table : r.week_id = week_id /\ r.brand = brand}

\* What an entry says of a field: its value, and "N/A" when it omits the field.
Derived(entry, field) ==
    IF field \in DOMAIN entry.fields THEN entry.fields[field] ELSE NA

DerivedRow(week_id, brand, entry) ==
    Row(week_id, brand, Derived(entry, "sales"), Derived(entry, "margin"))

\* C1: after any sequence of save_metrics calls the table holds at most one
\* row per (week_id, brand), and that row is exactly the one derived from the
\* entry the brand had in the most recent call for that week that returned: the
\* whole row is replaced, an omitted field reading "N/A".  A key no call has
\* written has no row.
C1_LastWriteWins ==
    \A k \in Weeks \X Brands :
        LET rows == RowsAt(store, k[1], k[2])
        IN  /\ Cardinality(rows) <= 1
            /\ IF last[k] = NoEntry THEN rows = {}
               ELSE rows = {DerivedRow(k[1], k[2], last[k])}

\* A later write that omits a field has replaced a row that held a value there.
C1_Witness ==
    /\ op.name = "save_metrics"
    /\ ~ret.raised
    /\ effect = "shrunk"
    /\ \E b \in DOMAIN op.metrics :
         /\ "margin" \notin DOMAIN op.metrics[b].fields
         /\ "sales" \in DOMAIN op.metrics[b].fields
         /\ RowsAt(store, op.week1, b) = {Row(op.week1, b, op.metrics[b].fields["sales"], NA)}

\* C2: a save_metrics call that repeats the call made just before it, same
\* week and same mapping, changes nothing: the table is as the first call left
\* it and the call ends as the first did.
C2_IdempotentUpsert ==
    [][(op'.name = "save_metrics" /\ effect' = "retry") => (store' = store /\ ret' = ret)]_vars

\* A call that wrote rows has been repeated.
C2_Witness ==
    /\ op.name = "save_metrics"
    /\ effect = "retry"
    /\ ~ret.raised
    /\ \A b \in Brands : b \in DOMAIN op.metrics /\ RowsAt(store, op.week1, b) # {}

\* C6: save_metrics does not fail for a missing "sales" or "margin": a call
\* whose entries are all objects returns, and for every brand of a call that
\* returned the stored row has "N/A" for a field the entry omits and the
\* entry's own value for a field it has.
C6_DefaultSentinel ==
    op.name = "save_metrics" =>
        /\ (\A b \in DOMAIN op.metrics : op.metrics[b].type = "object") => ~ret.raised
        /\ ~ret.raised =>
              \A b \in DOMAIN op.metrics :
                  \E r \in store :
                      /\ r.week_id = op.week1 /\ r.brand = b
                      /\ r.sales_var = (IF "sales" \in DOMAIN op.metrics[b].fields
                                        THEN op.metrics[b].fields["sales"] ELSE NA)
                      /\ r.margin_var = (IF "margin" \in DOMAIN op.metrics[b].fields
                                         THEN op.metrics[b].fields["margin"] ELSE NA)

\* One call has stored an entry with no field and an entry with sales only.
C6_Witness ==
    /\ op.name = "save_metrics"
    /\ ~ret.raised
    /\ \E b1, b2 \in DOMAIN op.metrics :
         /\ DOMAIN op.metrics[b1].fields = {}
         /\ DOMAIN op.metrics[b2].fields = {"sales"}
         /\ Row(op.week1, b1, NA, NA) \in store
         /\ Row(op.week1, b2, op.metrics[b2].fields["sales"], NA) \in store

\* The brands with a row for the week.
Recorded(table, week_id) == {r.brand : r \in {x \in table : x.week_id = week_id}}

\* The stored row of a recorded brand.
Stored(table, week_id, brand) == CHOOSE r \in RowsAt(table, week_id, brand) : TRUE

\* A cell of a comparison row; a label the row does not carry reads as NaN.
Cell(row, label) == IF label \in DOMAIN row THEN row[label] ELSE NaN

\* The labels under which compare(A, B) shows week A's and week B's fields.
ASales(A, B) == IF A = B THEN SalesCol(A) \o "_x" ELSE SalesCol(A)
AMargin(A, B) == IF A = B THEN MarginCol(A) \o "_x" ELSE MarginCol(A)
BSales(A, B) == IF A = B THEN SalesCol(B) \o "_y" ELSE SalesCol(B)
BMargin(A, B) == IF A = B THEN MarginCol(B) \o "_y" ELSE MarginCol(B)

\* C3: get_comparison_data(A, B) returns exactly one row for every brand with
\* a row in week A or in week B and no other row; in that row the fields of a
\* week the brand is recorded in hold the stored sales and margin, and the
\* fields of a week it is not recorded in are absent.
C3_OuterJoin ==
    op.name = "get_comparison_data" =>
        LET A == op.week1
            B == op.week2
            df == ret.value
        IN  /\ ~ret.raised
            /\ Len(df.rows) = Cardinality(Recorded(store, A) \cup Recorded(store, B))
            /\ \A b \in Brands :
                  LET rows == RowsOf(df, "brand", b)
                      inA == b \in Recorded(store, A)
                      inB == b \in Recorded(store, B)
                  IN  /\ Len(rows) = IF inA \/ inB THEN 1 ELSE 0
                      /\ inA => /\ Cell(rows[1], ASales(A, B)) = Stored(store, A, b).sales_var
                                /\ Cell(rows[1], AMargin(A, B)) = Stored(store, A, b).margin_var
                      /\ inB => /\ Cell(rows[1], BSales(A, B)) = Stored(store, B, b).sales_var
                                /\ Cell(rows[1], BMargin(A, B)) = Stored(store, B, b).margin_var
                      /\ (inB /\ ~inA) => /\ Cell(rows[1], ASales(A, B)) = NaN
                                          /\ Cell(rows[1], AMargin(A, B)) = NaN
                      /\ (inA /\ ~inB) => /\ Cell(rows[1], BSales(A, B)) = NaN
                                          /\ Cell(rows[1], BMargin(A, B)) = NaN

\* Two different weeks compared, one brand recorded in both and one brand
\* recorded in the second week only.
C3_Witness ==
    /\ op.name = "get_comparison_data"
    /\ op.week1 # op.week2
    /\ Len(ret.value.rows) = 2
    /\ \E b1, b2 \in Brands :
         /\ b1 \in Recorded(store, op.week1) \cap Recorded(store, op.week2)
         /\ b2 \in Recorded(store, op.week2) \ Recorded(store, op.week1)
         /\ Stored(store, op.week1, b1).sales_var # Stored(store, op.week2, b1).sales_var

\* C7: get_comparison_data on two weeks that both have no row, weeks no call
\* has ever named included, returns an empty frame; it does not raise and it
\* leaves the table as it is.
C7_EmptyComparison ==
    [][(/\ op'.name = "get_comparison_data"
        /\ Recorded(store, op'.week1) = {}
        /\ Recorded(store, op'.week2) = {})
       => (/\ ~ret'.raised
           /\ empty(ret'.value)
           /\ Len(ret'.value.rows) = 0
           /\ store' = store)]_vars

\* Two weeks with no row compared, one saved with an empty mapping and one
\* that no save_metrics call has named.
C7_Witness ==
    /\ op.name = "get_comparison_data"
    /\ ~ret.raised
    /\ ret.value = EmptyFrame
    /\ Recorded(store, op.week1) = {}
    /\ Recorded(store, op.week2) = {}
    /\ op.week1 \in upserted
    /\ op.week2 \notin upserted

\* The weeks some save_metrics call that returned has written a row of.
WrittenWeeks == {k[1] : k \in {x \in Weeks \X Brands : last[x] # NoEntry}}

\* C8 as stated: get_all_weeks holds exactly the weeks of the save_metrics
\* calls made, each once, however many brands a call had.
C8_AsStated ==
    op.name = "get_all_weeks" =>
        /\ Range(ret.value) = upserted
        /\ Len(ret.value) = Cardinality(upserted)

\* C8: get_all_weeks holds exactly the weeks for which a save_metrics call
\* that returned had at least one brand, each once, however many brands the
\* calls had; a week saved only with empty mappings is not listed.
C8_WeekEnumeration ==
    op.name = "get_all_weeks" =>
        /\ ~ret.raised
        /\ Range(ret.value) = WrittenWeeks
        /\ Len(ret.value) = Cardinality(WrittenWeeks)

\* The weeks are listed with two brands saved under each.
C8_Witness ==
    /\ op.name = "get_all_weeks"
    /\ Len(ret.value) = Cardinality(Weeks)
    /\ \A w \in Weeks : Recorded(store, w) = Brands

\* C10: a save_metrics call that raises partway through its brands leaves
\* every row committed before the call in the table, with the sales and margin
\* it had.
C10_FailedUpsertKeepsRows ==
    [][(op'.name = "save_metrics" /\ ret'.raised) => store \subseteq store']_vars

\* A call has raised on one brand after an entry that differs from the
\* committed row of its brand.
C10_Witness ==
    /\ op.name = "save_metrics"
    /\ ret.raised
    /\ \E b \in DOMAIN op.metrics :
         /\ op.metrics[b].type = "object"
         /\ RowsAt(store, op.week1, b) # {}
         /\ DerivedRow(op.week1, b, op.metrics[b]) \notin store

\* C11: in what get_comparison_data returns, a stored "N/A" and a brand with
\* no row for a week stay apart: for a brand with a row in one of the two
\* weeks only, the other week's sales and margin are absent and never "N/A",
\* the other week having rows or none; for a brand stored with "N/A", the cell
\* is the string "N/A".
C11_SentinelVsAbsent ==
    op.name = "get_comparison_data" =>
        LET A == op.week1
            B == op.week2
            df == ret.value
            absent(row, label) == label \notin DOMAIN row \/ row[label] = NaN
        IN  \A b \in Recorded(store, A) \cup Recorded(store, B) :
               LET rows == RowsOf(df, "brand", b)
                   inA == b \in Recorded(store, A)
                   inB == b \in Recorded(store, B)
               IN  /\ Len(rows) = 1
                   /\ ~inA => /\ absent(rows[1], ASales(A, B))
                              /\ absent(rows[1], AMargin(A, B))
                              /\ Cell(rows[1], ASales(A, B)) # NA
                              /\ Cell(rows[1], AMargin(A, B)) # NA
                   /\ ~inB => /\ absent(rows[1], BSales(A, B))
                              /\ absent(rows[1], BMargin(A, B))
                              /\ Cell(rows[1], BSales(A, B)) # NA
                              /\ Cell(rows[1], BMargin(A, B)) # NA
                   /\ (inA /\ Stored(store, A, b).sales_var = NA)
                         => Cell(rows[1], ASales(A, B)) = NA
                   /\ (inA /\ Stored(store, A, b).margin_var = NA)
                         => Cell(rows[1], AMargin(A, B)) = NA
                   /\ (inB /\ Stored(store, B, b).sales_var = NA)
                         => Cell(rows[1], BSales(A, B)) = NA
                   /\ (inB /\ Stored(store, B, b).margin_var = NA)
                         => Cell(rows[1], BMargin(A, B)) = NA

\* One comparison shows both: a brand stored with "N/A" as its margin in the
\* second week, and a brand with no row in the second week.
C11_Witness ==
    /\ op.name = "get_comparison_data"
    /\ op.week1 # op.week2
    /\ \E b1, b2 \in Recorded(store, op.week1) :
         /\ b1 \in Recorded(store, op.week2)
         /\ Stored(store, op.week2, b1).margin_var = NA
         /\ b2 \notin Recorded(store, op.week2)
         /\ RowsOf(ret.value, "brand", b1)[1][MarginCol(op.week2)] = NA
         /\ RowsOf(ret.value, "brand", b2)[1][MarginCol(op.week2)] = NaN

\* C14: get_comparison_data(W, W) is a join like any other: it returns one
\* row for every brand with a row in W and no other row, and every row carries
\* the week's sales and margin twice, once for each side of the join, both
\* holding the brand's stored values.
C14_SelfComparison ==
    (op.name = "get_comparison_data" /\ op.week1 = op.week2) =>
        LET W == op.week1
            df == ret.value
            sides == {SalesCol(W) \o "_x", SalesCol(W) \o "_y",
                      MarginCol(W) \o "_x", MarginCol(W) \o "_y"}
        IN  /\ ~ret.raised
            /\ Len(df.rows) = Cardinality(Recorded(store, W))
            /\ {df.rows[i]["brand"] : i \in 1..Len(df.rows)} = Recorded(store, W)
            /\ \A i \in 1..Len(df.rows) :
                  LET row == df.rows[i]
                      r == Stored(store, W, row["brand"])
                  IN  /\ sides \subseteq DOMAIN row
                      /\ row[SalesCol(W) \o "_x"] = r.sales_var
                      /\ row[SalesCol(W) \o "_y"] = r.sales_var
                      /\ row[MarginCol(W) \o "_x"] = r.margin_var
                      /\ row[MarginCol(W) \o "_y"] = r.margin_var

\* A week with two brands, one of them stored with "N/A" as its margin, has
\* been compared with itself.
C14_Witness ==
    /\ op.name = "get_comparison_data"
    /\ op.week1 = op.week2
    /\ Recorded(store, op.week1) = Brands
    /\ Len(ret.value.rows) = 2
    /\ \E i, j \in 1..2 :
         /\ ret.value.rows[i][MarginCol(op.week1) \o "_y"] = NA
         /\ ret.value.rows[j][MarginCol(op.week1) \o "_y"] \notin {NA, NaN}
         /\ ret.value.rows[j][SalesCol(op.week1) \o "_x"] \notin {NA, NaN}

\* C15: save_metrics(W, M) changes only rows of week W and of the brands of
\* M: every row of another week, and every row of W whose brand is not in M,
\* rows an earlier call saved for W included, is in the table after the call
\* as it was before; the rows that are new are rows of W for brands of M, and
\* no key that had a row is left without one.
C15_UpsertFrame ==
    [][op'.name = "save_metrics" =>
          LET W == op'.week1
              M == op'.metrics
          IN  /\ \A r \in store : (r.week_id # W \/ r.brand \notin DOMAIN M) => r \in store'
              /\ \A r \in store' \ store : r.week_id = W /\ r.brand \in DOMAIN M
              /\ \A r \in store : RowsAt(store', r.week_id, r.brand) # {}]_vars

\* A call for one brand has replaced the brand's row in a week that holds
\* another brand's row from an earlier call, the other week holding rows too.
C15_Witness ==
    /\ op.name = "save_metrics"
    /\ ~ret.raised
    /\ effect \in {"replaced", "shrunk"}
    /\ \E b \in Brands :
         /\ DOMAIN op.metrics = {b}
         /\ Recorded(store, op.week1) = Brands
         /\ \E w \in Weeks : w # op.week1 /\ Recorded(store, w) # {}

\* The rows a save_metrics call under way puts in place of the committed ones.
NewRows ==
    {DerivedRow(writer.week_id, b, writer.metrics_data[b]) :
        b \in {x \in DOMAIN writer.metrics_data : writer.metrics_data[x].type = "object"}}

\* The rows of the table that a frame read for a week shows.
FrameRows(read) ==
    {Row(read.week_id, read.df.rows[i]["brand"], read.df.rows[i]["sales_var"],
         read.df.rows[i]["margin_var"]) : i \in 1..Len(read.df.rows)}

-----------------------------------------------------------------------------
(* The generation action's contract *)

\* Extraction failed for the file: the provider call raised, its output is no
\* JSON, or its output is no brand mapping.
Failed(out) == out.kind \in {"raise", "garbage", "number"}

\* The files read so far that gave a brand mapping with the brand in it.
FilesWith(b) == {i \in 1..Len(extracted) : ~Failed(extracted[i]) /\ b \in DOMAIN extracted[i].dict}

LastFileWith(b) == CHOOSE i \in FilesWith(b) : \A j \in FilesWith(b) : j <= i

\* The merge of the files that succeeded: every brand with the entry of the
\* last of them that has it.
MergeOfSucceeded ==
    [b \in {x \in Brands : FilesWith(x) # {}} |-> extracted[LastFileWith(b)].dict[b]]

\* C4: when extraction fails for a file, whatever the failure, the action is
\* not ended by it: the file counts one warning, the files after it are read,
\* and what the action saves for the week is the merge of the files that
\* succeeded.
C4_PartialBatch ==
    (\E i \in 1..Len(extracted) : Failed(extracted[i])) =>
        /\ error \notin {"extract_metrics_from_file", "update"}
        /\ warnings = Cardinality({i \in 1..Len(extracted) : Failed(extracted[i])})
        /\ pc # "loop" => /\ Len(extracted) = n_files
                          /\ Len(saves) = 1
                          /\ saves[1] = <<current_week_id, MergeOfSucceeded>>

\* C5: the files are merged in the order supplied, and the accumulator holds,
\* for every brand of a file that parsed, the whole entry of the last such file
\* that has the brand, and no other brand.
C5_MergeOrder ==
    /\ DOMAIN all_metrics_data = {b \in Brands : FilesWith(b) # {}}
    /\ \A b \in DOMAIN all_metrics_data :
          all_metrics_data[b] = extracted[LastFileWith(b)].dict[b]

\* Three files: the first and the third have the same brand with different
\* entries, the second did not parse, and a brand is in one file only.
C5_Witness ==
    /\ Len(extracted) = 3
    /\ extracted[2].kind = "garbage"
    /\ \E b \in Brands :
         /\ FilesWith(b) = {1, 3}
         /\ extracted[1].dict[b] # extracted[3].dict[b]
         /\ "margin" \in DOMAIN extracted[1].dict[b].fields
         /\ "margin" \notin DOMAIN all_metrics_data[b].fields
    /\ \E b \in Brands : Cardinality(FilesWith(b)) = 1 /\ b \in DOMAIN all_metrics_data

\* The action has gone past its loop over the files.
PastLoop == pc \in {"generate", "done"} \/ (pc = "error" /\ error \in {"save_metrics", "generate_email"})

\* C13: a generation action that gets to the save makes one save_metrics call
\* and no more: none while files are still being read, then one whose
\* arguments are the action's week and the accumulator as the last file left
\* it, the merge of the files that parsed; the call is made with an empty
\* accumulator too, when no file parsed, and then it returns and leaves the
\* table as it was.
C13_OneSaveOfTheBatch ==
    [][/\ pc' = "loop" => saves' = <<>>
       /\ (pc = "loop" /\ pc' # "loop" /\ PastLoop') =>
             /\ Len(extracted) = n_files
             /\ all_metrics_data = MergeOfSucceeded
             /\ saves' = <<<<current_week_id, all_metrics_data>>>>
             /\ op' = Call("save_metrics", current_week_id, None, all_metrics_data)
             /\ all_metrics_data = EmptyDict => (~ret'.raised /\ store' = store)
       /\ (pc # "loop" /\ PastLoop') => saves' = saves]_vars

\* No file of three has parsed: the call has been made with the empty
\* accumulator, and the rows an earlier action saved for the week are there.
C13_Witness ==
    /\ pc = "generate"
    /\ n_files = 3
    /\ warnings = 3
    /\ \A i \in 1..3 : extracted[i].kind = "garbage"
    /\ saves = <<<<current_week_id, EmptyDict>>>>
    /\ op = Call("save_metrics", current_week_id, None, EmptyDict)
    /\ Recorded(store, current_week_id) # {}

\* C16: a run of the Vault tab over a table that lists fewer than two weeks
\* makes no comparison; a run over a table that lists two weeks or more gets to
\* the call get_comparison_data(baseline, current), baseline the second and
\* current the first week of get_all_weeks, and nothing raises before that call.
C16_VaultReachesComparison ==
    vault.outcome # None =>
        /\ Len(vault.available_weeks) < 2 => (vault.outcome = "info" /\ vault.calls = <<>>)
        /\ Len(vault.available_weeks) >= 2 =>
              /\ vault.outcome # "NameError"
              /\ vault.calls = <<Call("get_comparison_data", vault.available_weeks[2],
                                      vault.available_weeks[1], EmptyDict)>>

\* C9: the metrics are saved before the narrative generation starts, and a
\* generation that fails leaves the table exactly as the save left it: the
\* rows of the week as saved, the rows of the other weeks untouched.
C9_GenerationKeepsMetrics ==
    (pc \in {"generate", "done"} \/ (pc = "error" /\ error = "generate_email")) =>
        /\ Len(saves) = 1
        /\ saves[1] = <<current_week_id, all_metrics_data>>
        /\ store = saved
        /\ \A b \in DOMAIN all_metrics_data :
              DerivedRow(current_week_id, b, all_metrics_data[b]) \in store

\* The generation has failed after a save, the table holding rows of the
\* action's week and of another week.
C9_Witness ==
    /\ pc = "error"
    /\ error = "generate_email"
    /\ Recorded(store, current_week_id) # {}
    /\ \E w \in Weeks : w # current_week_id /\ Recorded(store, w) # {}

====
